---- MODULE Spec2Model ----
(***************************************************************************)
(* flux-fov: the flux field look-up table (FluxField, calc_flux_lut,       *)
(* march_ray) and the octant propagation of the field of vision            *)
(* (Fov::new, Fov::at, Fov::update, Helper::calc_origin / calc_edge /      *)
(* calc_interior) of src/lib.rs.                                           *)
(*                                                                         *)
(* Weights are f32 quotients jump/total in the source; here a weight is    *)
(* the exact pair [num, den], so that w and 1 - w stay distinguishable.    *)
(* The update function is the product of the closures of the unit tests:   *)
(* it returns the coordinates it was called with (coordinate_flag), the    *)
(* path count (flux_connection_flag) and a stamp (update number and call   *)
(* number) that tells when the value was produced.                         *)
(***************************************************************************)
EXTENDS Integers, Sequences, FiniteSets, TLC

\* ------------------------------------------------------------------ bounds
MaxRadius == 3      \* radii 0..MaxRadius are explored exhaustively
MaxRays == 2        \* rays swept by calc_flux_lut (ray_count)
MaxUpdates == 2     \* number of Fov::update calls on one Fov
MaxLimit == 4       \* march_ray alone: limit_x in 0..MaxLimit
MaxTarget == 6      \* march_ray alone: target_x, target_y in 0..MaxTarget

\* ------------------------------------------------------- program constants
BigRadius == 5      \* the radius of the big_* unit tests
RayScale == 100     \* ray_radius = 100 * radius

FieldRadii == (0 .. MaxRadius) \cup {BigRadius}

\* ------------------------------------------------------------- march_ray
RECURSIVE MarchGeneral(_, _, _, _, _, _, _)
MarchGeneral(step_x, limit_x, r, step_y, target_x, target_y, acc) ==
    IF step_x > limit_x THEN acc
    ELSE LET r1 == r + target_y
             jump == r1 >= target_x
             y1 == IF jump THEN step_y + 1 ELSE step_y
             r2 == IF jump THEN r1 - target_x ELSE r1
         IN MarchGeneral(step_x + 1, limit_x, r2, y1, target_x, target_y,
                         Append(acc, <<step_x, y1>>))

\* The points at which march_ray calls f, in call order.
MarchRay(limit_x, target_x, target_y) ==
    IF target_y = 0
    THEN [i \in 1 .. limit_x + 1 |-> <<i - 1, 0>>]
    ELSE IF target_y = target_x
    THEN [i \in 1 .. limit_x + 1 |-> <<i - 1, i - 1>>]
    ELSE MarchGeneral(1, limit_x, target_x \div 2, 0, target_x, target_y,
                      << <<0, 0>> >>)

\* ---------------------------------------------------------- calc_flux_lut
RayRadius(radius) == RayScale * radius

\* Endpoints (round(cos a * ray_radius), round(sin a * ray_radius)) a ray of
\* angle a in [0, pi/4] can have: lattice points of the octant within
\* rounding distance of the circle of radius ray_radius.
Targets(radius) ==
    LET rr == RayRadius(radius)
    IN { t \in ((7 * rr) \div 10 - 1 .. rr) \X (0 .. (71 * rr) \div 100 + 1) :
            /\ t[2] <= t[1]
            /\ (rr - 1) * (rr - 1) < t[1] * t[1] + t[2] * t[2]
            /\ t[1] * t[1] + t[2] * t[2] < (rr + 1) * (rr + 1) }

TargetsOf == [radius \in FieldRadii \ {0} |-> Targets(radius)]

CountsWd(radius) == radius - 1

CountsIx(x, y, counts_wd) == (y - 1) * counts_wd + x - 2

NoCounts(radius) ==
    [ix \in 0 .. CountsWd(radius) * CountsWd(radius) - 1 |->
        [jump |-> 0, total |-> 0]]

\* The closure of calc_flux_lut applied along one marched path.
RECURSIVE CountPath(_, _, _, _, _)
CountPath(cnt, path, k, last_y, counts_wd) ==
    IF k > Len(path) THEN cnt
    ELSE LET x == path[k][1]
             y == path[k][2]
             ix == CountsIx(x, y, counts_wd)
             c1 == IF 1 < x /\ 0 < y /\ y < x
                   THEN [cnt EXCEPT ![ix] =
                            [total |-> @.total + 1,
                             jump |-> IF last_y # y THEN @.jump + 1
                                                    ELSE @.jump]]
                   ELSE cnt
         IN CountPath(c1, path, k + 1, y, counts_wd)

\* LutSource with the counts array read transposed.
LutSourceTransposed(x, y, counts_wd) == x * counts_wd + y

LutSource(x, y, counts_wd) == y * counts_wd + x

\* The LUT emission loops: x in 0..radius-1, y in 0..x+1, push.  An entry
\* is the quotient jump/total; src remembers the counts slot it was read from.
RECURSIVE EmitLut(_, _, _, _, _)
EmitLut(cnt, radius, x, y, lut) ==
    IF x >= radius - 1 THEN lut
    ELSE IF y >= x + 1 THEN EmitLut(cnt, radius, x + 1, 0, lut)
    ELSE LET ix == LutSource(x, y, CountsWd(radius))
         IN EmitLut(cnt, radius, x, y + 1,
                    Append(lut, [num |-> cnt[ix].jump,
                                 den |-> cnt[ix].total,
                                 src |-> ix]))

\* ------------------------------------------------------------- weights
One == [num |-> 1, den |-> 1]

Weight(e) == [num |-> e.num, den |-> e.den]

\* 1.0 - w; 0/0 is NaN and stays NaN.
Complement(w) ==
    IF w.den = 0 THEN w ELSE [num |-> w.den - w.num, den |-> w.den]

\* ---------------------------------------------------------------- Fov
FovWidth(radius) == radius * 2 + 1

FovIxOrigin(radius, width) == radius * (width + 1)

\* The value every cell holds after Fov::new (the init argument of the tests).
InitValue == [x |-> -1, y |-> -1, paths |-> -1, pass |-> 0, n |-> 0]

\* Fov::at: the index of cell (x, y) in data.
AtIx(f, x, y) == f.ix_origin + (f.width * y) + x

At(f, x, y) == f.data[AtIx(f, x, y)]

\* Fov::as_slice
AsSlice(f) == f.data

\* ------------------------------------------------------- update function
RECURSIVE SumPaths(_, _)
SumPaths(influxes, k) ==
    IF k > Len(influxes) THEN 0
    ELSE influxes[k].value.paths + SumPaths(influxes, k + 1)

\* |x, y, _| (x, y) of coordinate_flag together with the closure of
\* flux_connection_flag; pass and n stamp the call that produced the value.
UpdateFn(x, y, influxes, p, n) ==
    [x |-> x, y |-> y,
     paths |-> IF x = 0 /\ y = 0 THEN 1 ELSE SumPaths(influxes, 1),
     pass |-> p, n |-> n]

\* ------------------------------------------------------------ Fov::update
\* Edges with the stride of the last ray taken from the ray (-1, -1).
EdgesRepeatedStride(w) ==
    << <<1, 0, 1>>,
       <<1, 1, w + 1>>,
       <<0, 1, w>>,
       <<-1, 1, w - 1>>,
       <<-1, 0, -1>>,
       <<-1, -1, -w - 1>>,
       <<0, -1, -w>>,
       <<1, -1, -w - 1>> >>

\* The eight calc_edge calls: dx, dy, stride.
Edges(w) ==
    << <<1, 0, 1>>,
       <<1, 1, w + 1>>,
       <<0, 1, w>>,
       <<-1, 1, w - 1>>,
       <<-1, 0, -1>>,
       <<-1, -1, -w - 1>>,
       <<0, -1, -w>>,
       <<1, -1, -w + 1>> >>

\* Octants with the sign of m_xv of the third octant not matching v_stride.
OctantsSignSlip(w) ==
    << <<1, 0, 0, 1, 1, w>>,
       <<0, 1, 1, 0, w, 1>>,
       <<0, 1, 1, 0, w, -1>>,
       <<-1, 0, 0, 1, -1, w>>,
       <<-1, 0, 0, -1, -1, -w>>,
       <<0, -1, -1, 0, -w, -1>>,
       <<0, 1, -1, 0, -w, 1>>,
       <<1, 0, 0, -1, 1, -w>> >>

\* The eight calc_interior calls: m_xu, m_xv, m_yu, m_yv, u_stride, v_stride.
Octants(w) ==
    << <<1, 0, 0, 1, 1, w>>,
       <<0, 1, 1, 0, w, 1>>,
       <<0, -1, 1, 0, w, -1>>,
       <<-1, 0, 0, 1, -1, w>>,
       <<-1, 0, 0, -1, -1, -w>>,
       <<0, -1, -1, 0, -w, -1>>,
       <<0, 1, -1, 0, -w, 1>>,
       <<1, 0, 0, -1, 1, -w>> >>

\* EdgePrev with prev taken after curr is advanced.
EdgePrevLate(curr, stride) == curr + stride

\* calc_edge: the cell prev refers to, given curr before it is advanced.
EdgePrev(curr, stride) == curr

\* EdgeInfluxes with the direction pointing back at the neighbour.
EdgeInfluxesInward(dx, dy, prev) ==
    << [dx |-> -dx, dy |-> -dy, weight |-> One, value |-> prev] >>

\* calc_edge: the influx slice handed to update_fn.
EdgeInfluxes(dx, dy, prev) ==
    << [dx |-> dx, dy |-> dy, weight |-> One, value |-> prev] >>

\* ColumnInflux with influx_ptr taken after col_ptr is advanced.
ColumnInfluxLate(col_ptr, u_stride) == col_ptr + u_stride

\* calc_interior: the cell influx_ptr refers to when column u is entered.
ColumnInflux(col_ptr, u_stride) == col_ptr

\* calc_interior: world coordinates of the octant-local cell (u, v).
InteriorX(o, u, v) == o[1] * u + o[2] * v

InteriorY(o, u, v) == o[3] * u + o[4] * v

\* InteriorInfluxes with both influxes carrying the same cell.
InteriorInfluxesSame(o, w, influx_stay, influx_jump) ==
    << [dx |-> -o[1], dy |-> -o[3], weight |-> w, value |-> influx_stay],
       [dx |-> -(o[1] + o[2]), dy |-> -(o[3] + o[4]),
        weight |-> Complement(w), value |-> influx_stay] >>

\* calc_interior: the influx slice handed to update_fn.
InteriorInfluxes(o, w, influx_stay, influx_jump) ==
    << [dx |-> -o[1], dy |-> -o[3], weight |-> w, value |-> influx_stay],
       [dx |-> -(o[1] + o[2]), dy |-> -(o[3] + o[4]),
        weight |-> Complement(w), value |-> influx_jump] >>

\* ------------------------------------------------------------------ state
VARIABLES
    pc,          \* "start", "rays", "field", "idle", "edge", "interior", "aborted"
    args,        \* the radius arguments of FluxField::new and Fov::new
    counts,      \* calc_flux_lut: the RayCount accumulators
    ray_ix,      \* calc_flux_lut: the ray loop variable
    flux_field,  \* FluxField: radius, flux_lut
    fov,         \* Fov: radius, width, ix_origin, data
    h,           \* Helper: loop variables and pointers of the running pass
    pass,        \* number of update calls started
    calls,       \* update_fn calls made by the current update call
    writes,      \* per data index: writes made by the current update call
    last_call,   \* the arguments of the latest update_fn call
    march        \* march_ray: arguments, loop variables and the calls of f so far

vars == <<pc, args, counts, ray_ix, flux_field, fov, h, pass, calls, writes,
          last_call, march>>

NoHelper ==
    [k |-> 0, i |-> 0, u |-> 0, v |-> 0, x |-> 0, y |-> 0, curr |-> 0,
     col_ptr |-> 0, influx_ptr |-> 0, influx_stay |-> 0, lut_ix |-> 0]

NoCall == [kind |-> "none", x |-> 0, y |-> 0, influxes |-> <<>>,
           k |-> 0, u |-> 0, v |-> 0, lut_ix |-> 0]

\* march_ray is not running.
NoMarch ==
    [pc |-> "none", limit_x |-> 0, target_x |-> 0, target_y |-> 0,
     step_x |-> 0, step_y |-> 0, r |-> 0, visited |-> <<>>]

Init ==
    /\ pc = "start"
    /\ args = [field |-> -1, fov |-> -1]
    /\ counts = <<>>
    /\ ray_ix = 0
    /\ flux_field = [radius |-> 0, flux_lut |-> <<>>]
    /\ fov = [radius |-> 0, width |-> 0, ix_origin |-> 0, data |-> <<>>]
    /\ h = NoHelper
    /\ pass = 0
    /\ calls = 0
    /\ writes = <<>>
    /\ last_call = NoCall
    /\ march = NoMarch

\* FluxField::new(radius) up to the ray loop of calc_flux_lut; the
\* assertion flux_field_radius > 0 aborts the construction.
FluxFieldNew(radius) ==
    /\ pc = "start"
    /\ args' = [args EXCEPT !.field = radius]
    /\ IF radius > 0 /\ MaxRays > 1
       THEN /\ pc' = "rays"
            /\ counts' = NoCounts(radius)
            /\ flux_field' = [flux_field EXCEPT !.radius = radius]
       ELSE /\ pc' = "aborted"
            /\ UNCHANGED <<counts, flux_field>>
    /\ UNCHANGED <<ray_ix, fov, h, pass, calls, writes, last_call, march>>

\* One iteration of the ray loop: one march_ray call with the counting closure.
MarchOneRay ==
    /\ pc = "rays"
    /\ ray_ix < MaxRays
    /\ \E t \in TargetsOf[flux_field.radius] :
          LET path == MarchRay(flux_field.radius, t[1], t[2])
          IN /\ counts' = CountPath(counts, path, 1, 0,
                                    CountsWd(flux_field.radius))
             /\ march' = [NoMarch EXCEPT !.pc = "done",
                                         !.limit_x = flux_field.radius,
                                         !.visited = path]
    /\ ray_ix' = ray_ix + 1
    /\ UNCHANGED <<pc, args, flux_field, fov, h, pass, calls, writes,
                   last_call>>

\* The emission of the LUT, which ends FluxField::new.
BuildLut ==
    /\ pc = "rays"
    /\ ray_ix = MaxRays
    /\ flux_field' = [flux_field EXCEPT
                         !.flux_lut = EmitLut(counts, flux_field.radius,
                                              0, 0, <<>>)]
    /\ pc' = "field"
    /\ march' = NoMarch
    /\ UNCHANGED <<args, counts, ray_ix, fov, h, pass, calls, writes,
                   last_call>>

\* Fov::new(flux_field, radius, init)
FovNew(radius) ==
    /\ pc = "field"
    /\ args' = [args EXCEPT !.fov = radius]
    /\ IF radius <= flux_field.radius
       THEN LET width == FovWidth(radius)
            IN /\ fov' = [radius |-> radius,
                          width |-> width,
                          ix_origin |-> FovIxOrigin(radius, width),
                          data |-> [ix \in 0 .. width * width - 1 |->
                                       InitValue]]
               /\ pc' = "idle"
       ELSE /\ pc' = "aborted"
            /\ UNCHANGED fov
    /\ UNCHANGED <<counts, ray_ix, flux_field, h, pass, calls, writes,
                   last_call, march>>

EdgeStart(k) ==
    [NoHelper EXCEPT !.k = k, !.curr = fov.ix_origin]

InteriorStart(k) ==
    [NoHelper EXCEPT !.k = k, !.u = 2, !.v = 1,
                     !.col_ptr = fov.ix_origin + Octants(fov.width)[k][5]]

\* Fov::update up to and including calc_origin.
CalcOrigin ==
    /\ pc = "idle"
    /\ pass < MaxUpdates
    /\ pass' = pass + 1
    /\ calls' = 1
    /\ fov' = [fov EXCEPT !.data[fov.ix_origin] =
                              UpdateFn(0, 0, <<>>, pass + 1, 1)]
    /\ writes' = [ix \in DOMAIN fov.data |->
                     IF ix = fov.ix_origin THEN 1 ELSE 0]
    /\ last_call' = [NoCall EXCEPT !.kind = "origin"]
    /\ IF fov.radius > 0
       THEN pc' = "edge" /\ h' = EdgeStart(1)
       ELSE pc' = "idle" /\ h' = NoHelper
    /\ UNCHANGED <<args, counts, ray_ix, flux_field, march>>

\* One iteration of the loop of calc_edge.
CalcEdgeStep ==
    /\ pc = "edge"
    /\ LET e == Edges(fov.width)[h.k]
           x == h.x + e[1]
           y == h.y + e[2]
           prev == EdgePrev(h.curr, e[3])
           curr == h.curr + e[3]
           influxes == EdgeInfluxes(e[1], e[2], fov.data[prev])
       IN /\ fov' = [fov EXCEPT !.data[curr] =
                                   UpdateFn(x, y, influxes, pass, calls + 1)]
          /\ writes' = [writes EXCEPT ![curr] = @ + 1]
          /\ last_call' = [NoCall EXCEPT !.kind = "edge", !.x = x, !.y = y,
                                         !.influxes = influxes, !.k = h.k,
                                         !.u = h.i + 1]
          /\ IF h.i + 1 < fov.radius
             THEN /\ h' = [h EXCEPT !.i = @ + 1, !.x = x, !.y = y,
                                    !.curr = curr]
                  /\ pc' = pc
             ELSE IF h.k < 8
             THEN h' = EdgeStart(h.k + 1) /\ pc' = pc
             ELSE IF fov.radius > 1
             THEN h' = InteriorStart(1) /\ pc' = "interior"
             ELSE h' = NoHelper /\ pc' = "idle"
    /\ calls' = calls + 1
    /\ UNCHANGED <<args, counts, ray_ix, flux_field, pass, march>>

\* One iteration of the inner loop of calc_interior, with the head of the
\* outer loop when the iteration is the first of its column.
CalcInteriorStep ==
    /\ pc = "interior"
    /\ LET o == Octants(fov.width)[h.k]
           head == h.v = 1
           influx_ptr0 == IF head THEN ColumnInflux(h.col_ptr, o[5])
                                  ELSE h.influx_ptr
           influx_stay == IF head THEN influx_ptr0 ELSE h.influx_stay
           col_ptr == IF head THEN h.col_ptr + o[5] ELSE h.col_ptr
           curr == (IF head THEN col_ptr ELSE h.curr) + o[6]
           influx_ptr == influx_ptr0 + o[6]
           influx_jump == influx_ptr
           x == InteriorX(o, h.u, h.v)
           y == InteriorY(o, h.u, h.v)
           w == Weight(flux_field.flux_lut[h.lut_ix + 1])
           influxes == InteriorInfluxes(o, w, fov.data[influx_stay],
                                        fov.data[influx_jump])
       IN /\ fov' = [fov EXCEPT !.data[curr] =
                                   UpdateFn(x, y, influxes, pass, calls + 1)]
          /\ writes' = [writes EXCEPT ![curr] = @ + 1]
          /\ last_call' = [kind |-> "interior", x |-> x, y |-> y,
                           influxes |-> influxes, k |-> h.k,
                           u |-> h.u, v |-> h.v, lut_ix |-> h.lut_ix]
          /\ IF h.v + 1 < h.u
             THEN /\ h' = [h EXCEPT !.v = @ + 1, !.curr = curr,
                                    !.col_ptr = col_ptr,
                                    !.influx_ptr = influx_ptr,
                                    !.influx_stay = influx_jump,
                                    !.lut_ix = @ + 1]
                  /\ pc' = pc
             ELSE IF h.u + 1 < fov.radius + 1
             THEN /\ h' = [h EXCEPT !.u = @ + 1, !.v = 1, !.curr = curr,
                                    !.col_ptr = col_ptr,
                                    !.influx_ptr = influx_ptr,
                                    !.influx_stay = influx_jump,
                                    !.lut_ix = @ + 1]
                  /\ pc' = pc
             ELSE IF h.k < 8
             THEN h' = InteriorStart(h.k + 1) /\ pc' = pc
             ELSE h' = NoHelper /\ pc' = "idle"
    /\ calls' = calls + 1
    /\ UNCHANGED <<args, counts, ray_ix, flux_field, pass, march>>

Next ==
    \/ \E radius \in FieldRadii : FluxFieldNew(radius)
    \/ MarchOneRay
    \/ BuildLut
    \/ \E radius \in FieldRadii \cup {flux_field.radius + 1} : FovNew(radius)
    \/ CalcOrigin
    \/ CalcEdgeStep
    \/ CalcInteriorStep

Spec == Init /\ [][Next]_vars

\* ------------------------------------------------- march_ray, step by step
\* The general branch with the wrap of the error term left out.
MarchStepGeneralNoWrap(r, step_y, target_x, target_y) ==
    LET r1 == r + target_y
    IN IF r1 >= target_x
       THEN [r |-> r1, step_y |-> step_y + 1]
       ELSE [r |-> r1, step_y |-> step_y]

\* One iteration of the loop of the general branch: the new r and step_y.
MarchStepGeneral(r, step_y, target_x, target_y) ==
    LET r1 == r + target_y
    IN IF r1 >= target_x
       THEN [r |-> r1 - target_x, step_y |-> step_y + 1]
       ELSE [r |-> r1, step_y |-> step_y]

\* The branch march_ray takes.
MarchBranch(m) ==
    IF m.target_y = 0 THEN "horizontal"
    ELSE IF m.target_y = m.target_x THEN "diagonal"
    ELSE "general"

\* march_ray is called on its own with arguments from bounded sets.
InitMarch ==
    /\ pc = "march"
    /\ args = [field |-> -1, fov |-> -1]
    /\ counts = <<>>
    /\ ray_ix = 0
    /\ flux_field = [radius |-> 0, flux_lut |-> <<>>]
    /\ fov = [radius |-> 0, width |-> 0, ix_origin |-> 0, data |-> <<>>]
    /\ h = NoHelper
    /\ pass = 0
    /\ calls = 0
    /\ writes = <<>>
    /\ last_call = NoCall
    /\ \E l \in 0 .. MaxLimit, tx \in 0 .. MaxTarget, ty \in 0 .. MaxTarget :
          march = [NoMarch EXCEPT !.pc = "call", !.limit_x = l,
                                  !.target_x = tx, !.target_y = ty]

\* march_ray up to its loop: the assertion, the choice of the branch and,
\* in the general branch, the call f(0, 0) and the start of the error term.
MarchEnter ==
    /\ pc = "march"
    /\ march.pc = "call"
    /\ IF march.target_y > march.target_x
       THEN march' = [march EXCEPT !.pc = "aborted"]
       ELSE IF MarchBranch(march) = "general"
       THEN march' = [march EXCEPT
                         !.visited = << <<0, 0>> >>,
                         !.r = march.target_x \div 2,
                         !.step_y = 0,
                         !.step_x = 1,
                         !.pc = IF 1 < march.limit_x + 1 THEN "loop"
                                                         ELSE "done"]
       ELSE march' = [march EXCEPT !.step_x = 0, !.pc = "loop"]
    /\ UNCHANGED <<pc, args, counts, ray_ix, flux_field, fov, h, pass, calls,
                   writes, last_call>>

\* One iteration of the loop of the branch taken, with its call of f.
MarchLoop ==
    /\ pc = "march"
    /\ march.pc = "loop"
    /\ march.step_x < march.limit_x + 1
    /\ LET g == MarchStepGeneral(march.r, march.step_y,
                                 march.target_x, march.target_y)
           b == MarchBranch(march)
           y == IF b = "horizontal" THEN 0
                ELSE IF b = "diagonal" THEN march.step_x
                ELSE g.step_y
       IN march' = [march EXCEPT
                       !.visited = Append(@, <<march.step_x, y>>),
                       !.r = IF b = "general" THEN g.r ELSE @,
                       !.step_y = IF b = "general" THEN g.step_y ELSE @,
                       !.step_x = @ + 1,
                       !.pc = IF march.step_x + 1 < march.limit_x + 1
                              THEN "loop" ELSE "done"]
    /\ UNCHANGED <<pc, args, counts, ray_ix, flux_field, fov, h, pass, calls,
                   writes, last_call>>

NextMarch ==
    \/ MarchEnter
    \/ MarchLoop

SpecMarch == InitMarch /\ [][NextMarch]_vars

\* ============================================================ properties
\* An update call is running or has returned.
InUpdate == pass >= 1 /\ pc \in {"idle", "edge", "interior"}

\* An update call has returned.
Done == pass >= 1 /\ pc = "idle"

Span(f) == (0 - f.radius) .. f.radius

InGrid(f, x, y) == x \in Span(f) /\ y \in Span(f)

Abs(a) == IF a < 0 THEN 0 - a ELSE a

Max(a, b) == IF a < b THEN b ELSE a

Min(a, b) == IF a < b THEN a ELSE b

RECURSIVE Binom(_, _)
Binom(n, k) ==
    IF k = 0 \/ k = n THEN 1 ELSE Binom(n - 1, k - 1) + Binom(n - 1, k)

\* C1. Coordinate identity: after an update with the function returning its
\* own coordinates, at(x, y) is (x, y) for every cell of the grid, as_slice
\* lists the cells row-major (y ascending from -R, x ascending within a row),
\* and at any moment of the pass a written cell holds the coordinates of its
\* own memory position.
C1_CoordinateIdentity ==
    /\ Done =>
          /\ \A x \in Span(fov), y \in Span(fov) :
                At(fov, x, y).x = x /\ At(fov, x, y).y = y
          /\ \A ix \in DOMAIN AsSlice(fov) :
                /\ AsSlice(fov)[ix].x = (ix % fov.width) - fov.radius
                /\ AsSlice(fov)[ix].y = (ix \div fov.width) - fov.radius
    /\ InUpdate =>
          \A ix \in DOMAIN fov.data :
             writes[ix] > 0 =>
                ix = AtIx(fov, fov.data[ix].x, fov.data[ix].y)

C1_Witness ==
    /\ Done
    /\ flux_field.radius = 3
    /\ fov.radius = 2
    /\ At(fov, -2, 1).x = -2
    /\ At(fov, -2, 1).y = 1
    /\ AsSlice(fov)[0].x = -2
    /\ AsSlice(fov)[0].y = -2

\* C2. One update makes exactly (2R+1)^2 calls and writes every cell exactly
\* once: no cell is ever written twice during a pass, every call writes one
\* cell, and when the pass returns every cell has been written.  For R = 0
\* the pass is the single call f(0, 0, []).
C2_EachCellOnce ==
    /\ InUpdate =>
          /\ \A ix \in DOMAIN writes : writes[ix] <= 1
          /\ calls = Cardinality({ix \in DOMAIN writes : writes[ix] = 1})
    /\ Done =>
          /\ calls = FovWidth(fov.radius) * FovWidth(fov.radius)
          /\ \A ix \in DOMAIN writes : writes[ix] = 1
    /\ (Done /\ fov.radius = 0) =>
          /\ calls = 1
          /\ last_call.kind = "origin"
          /\ last_call.x = 0 /\ last_call.y = 0
          /\ last_call.influxes = <<>>

C2_Witness ==
    /\ Done
    /\ fov.radius = 3
    /\ calls = 49
    /\ last_call.kind = "interior"

\* C3. Upstream before downstream: every influx value handed to the update
\* function was written earlier in the same update call, and the calls come
\* in the order origin, the 8 edge rays, the 8 octant interiors.
C3_UpstreamFirst ==
    InUpdate =>
       /\ \A k \in DOMAIN last_call.influxes :
             /\ last_call.influxes[k].value.pass = pass
             /\ last_call.influxes[k].value.n >= 1
             /\ last_call.influxes[k].value.n < calls
       /\ last_call.kind = "origin" <=> calls = 1
       /\ last_call.kind = "edge" <=>
             (2 <= calls /\ calls <= 8 * fov.radius + 1)
       /\ last_call.kind = "interior" <=> calls > 8 * fov.radius + 1
       /\ last_call.kind = "edge" =>
             calls = 1 + (last_call.k - 1) * fov.radius + last_call.u

C3_Witness ==
    /\ pass = 2
    /\ pc = "interior"
    /\ last_call.kind = "interior"
    /\ last_call.u = 3 /\ last_call.v = 2
    /\ last_call.influxes[2].value.pass = 2

\* The LUT index of the octant-local cell (u, v).
LutIndex(u, v) == ((u - 2) * (u - 1)) \div 2 + (v - 1)

\* The value of the cell at octant-local (u, v) of octant k.
Local(k, u, v) ==
    At(fov, InteriorX(Octants(fov.width)[k], u, v),
            InteriorY(Octants(fov.width)[k], u, v))

\* C4. An interior call passes two influxes: first weight w with the value of
\* the stay cell (u-1, v), then weight 1-w with the value of the jump cell
\* (u-1, v-1).
C4_StayThenJump ==
    last_call.kind = "interior" =>
       LET w == Weight(flux_field.flux_lut[LutIndex(last_call.u,
                                                    last_call.v) + 1])
       IN /\ Len(last_call.influxes) = 2
          /\ last_call.influxes[1].weight = w
          /\ last_call.influxes[1].value =
                Local(last_call.k, last_call.u - 1, last_call.v)
          /\ last_call.influxes[2].weight = Complement(w)
          /\ last_call.influxes[2].value =
                Local(last_call.k, last_call.u - 1, last_call.v - 1)

C6_EdgeInflux ==
    /\ (InUpdate /\ last_call.kind = "edge") =>
          LET e == Edges(fov.width)[last_call.k]
              i == last_call.u
          IN /\ i \in 1 .. fov.radius
             /\ last_call.x = e[1] * i /\ last_call.y = e[2] * i
             /\ Len(last_call.influxes) = 1
             /\ last_call.influxes[1].weight = [num |-> 1, den |-> 1]
             /\ last_call.influxes[1].dx = e[1]
             /\ last_call.influxes[1].dy = e[2]
             /\ last_call.influxes[1].value =
                   At(fov, e[1] * (i - 1), e[2] * (i - 1))
             /\ last_call.influxes[1].value.pass = pass
             /\ At(fov, last_call.x, last_call.y).n = calls
    /\ (InUpdate /\ last_call.kind = "origin") => last_call.influxes = <<>>
    /\ Done =>
          \A d \in {-1, 0, 1} \X {-1, 0, 1}, i \in 1 .. fov.radius :
             d # <<0, 0>> =>
                \E k \in 1 .. 8 :
                   /\ Edges(fov.width)[k][1] = d[1]
                   /\ Edges(fov.width)[k][2] = d[2]
                   /\ At(fov, d[1] * i, d[2] * i).pass = pass
                   /\ At(fov, d[1] * i, d[2] * i).n =
                         1 + (k - 1) * fov.radius + i

C6_Witness ==
    /\ pc = "edge"
    /\ fov.radius = 3
    /\ last_call.kind = "edge"
    /\ last_call.x = -2 /\ last_call.y = 2
    /\ last_call.influxes[1].value.x = -1
    /\ last_call.influxes[1].value.y = 1

C8_Original ==
    (Done /\ fov.radius = BigRadius) =>
       /\ At(fov, 1, 0).paths = 5
       /\ At(fov, 0, 1).paths = 5
       /\ At(fov, -1, 0).paths = 5
       /\ At(fov, 0, -1).paths = 5
       /\ At(fov, 5, 5).paths = 1

\* C8 as amended: at radius 5 the cells (1,0), (0,1), (-1,0), (0,-1) hold 1
\* and (5,5) holds 1; the value 5 is held by (5,1), (1,5), (-5,-1), (-1,-5).
C8_BigConnection ==
    (Done /\ fov.radius = BigRadius) =>
       /\ At(fov, 1, 0).paths = 1
       /\ At(fov, 0, 1).paths = 1
       /\ At(fov, -1, 0).paths = 1
       /\ At(fov, 0, -1).paths = 1
       /\ At(fov, 5, 5).paths = 1
       /\ At(fov, 5, 1).paths = 5
       /\ At(fov, 1, 5).paths = 5
       /\ At(fov, -5, -1).paths = 5
       /\ At(fov, -1, -5).paths = 5

C8_Witness ==
    /\ Done
    /\ fov.radius = BigRadius
    /\ flux_field.radius = BigRadius
    /\ At(fov, 1, 0).pass = pass
    /\ At(fov, 5, 5).pass = pass

\* C9. FluxField::new(0) constructs, and the radius-0 Fov on it ends its
\* update with the single cell holding (0, 0), with no abort on the way.
C9_RadiusZeroUsable ==
    args.field = 0 =>
       /\ pc # "aborted"
       /\ Done => (At(fov, 0, 0).x = 0 /\ At(fov, 0, 0).y = 0)

\* C10. The LUT holds (F-1)*F/2 entries; Fov::new rejects R > F; the LUT
\* index used for the octant-local cell (u, v) is (u-2)*(u-1)/2 + (v-1), lies
\* within the LUT, and the entry there is the quotient of the ray counts of
\* lattice point (u, v).
C10_LutIndex ==
    /\ pc \in {"field", "idle", "edge", "interior"} =>
          /\ flux_field.radius >= 1
          /\ Len(flux_field.flux_lut) =
                ((flux_field.radius - 1) * flux_field.radius) \div 2
    /\ (args.fov > flux_field.radius) => pc = "aborted"
    /\ pc \in {"idle", "edge", "interior"} =>
          fov.radius = args.fov /\ fov.radius <= flux_field.radius
    /\ last_call.kind = "interior" =>
          LET u == last_call.u
              v == last_call.v
              c == counts[(v - 1) * (flux_field.radius - 1) + u - 2]
          IN /\ 2 <= u /\ u <= fov.radius /\ 1 <= v /\ v < u
             /\ last_call.lut_ix = ((u - 2) * (u - 1)) \div 2 + (v - 1)
             /\ last_call.lut_ix >= 0
             /\ last_call.lut_ix < Len(flux_field.flux_lut)
             /\ flux_field.flux_lut[last_call.lut_ix + 1].src =
                   (v - 1) * (flux_field.radius - 1) + u - 2
             /\ last_call.influxes[1].weight =
                   [num |-> c.jump, den |-> c.total]

C10_Witness ==
    /\ last_call.kind = "interior"
    /\ flux_field.radius = BigRadius
    /\ fov.radius = 3
    /\ last_call.k = 6
    /\ last_call.u = 3 /\ last_call.v = 2
    /\ last_call.lut_ix = 2
    /\ last_call.influxes[1].weight.den > 0

\* The accumulators are consistent while the rays are swept: jump never
\* exceeds total, and every slot the closure writes lies in the array.
CountsSound ==
    pc = "rays" =>
       /\ \A ix \in DOMAIN counts :
             0 <= counts[ix].jump /\ counts[ix].jump <= counts[ix].total
       /\ \A i \in DOMAIN march.visited :
             LET x == march.visited[i][1]
                 y == march.visited[i][2]
             IN (1 < x /\ 0 < y /\ y < x) =>
                   /\ 0 <= (y - 1) * (flux_field.radius - 1) + x - 2
                   /\ (y - 1) * (flux_field.radius - 1) + x - 2 <
                         (flux_field.radius - 1) * (flux_field.radius - 1)

\* A ray adds to the total of at most one point of a column, so when the
\* last column has more interior points than there are rays, one of them
\* is never visited, whatever the endpoints of the rays.
FewRaysLeaveGaps ==
    (pc = "field" /\ flux_field.radius - 1 > MaxRays) =>
       \E y \in 1 .. flux_field.radius - 1 :
          counts[CountsIx(flux_field.radius, y,
                          CountsWd(flux_field.radius))].total = 0

MarchRayAgrees ==
    (pc = "march" /\ march.pc = "done") =>
       march.visited = MarchRay(march.limit_x, march.target_x, march.target_y)

\* The properties of the calls of f that do not depend on the branch:
\* limit_x + 1 calls, x = 0, 1, ..., limit_x in order from (0, 0), y never
\* decreasing, growing by at most 1 per step and never above x, and the
\* error term of the general branch within [0, target_x).
MarchPathShape ==
    LET v == march.visited
    IN /\ march.pc # "aborted"
       /\ Len(v) <= march.limit_x + 1
       /\ march.pc = "done" => Len(v) = march.limit_x + 1
       /\ \A i \in DOMAIN v : v[i][1] = i - 1
       /\ Len(v) >= 1 => v[1] = <<0, 0>>
       /\ \A i \in DOMAIN v :
             /\ v[i][2] <= v[i][1]
             /\ i > 1 => (v[i - 1][2] <= v[i][2]
                          /\ v[i][2] <= v[i - 1][2] + 1)
       /\ (0 < march.target_y /\ march.target_y < march.target_x
           /\ march.pc \in {"loop", "done"}) =>
             (0 <= march.r /\ march.r < march.target_x)
       /\ march.target_y = 0 => \A i \in DOMAIN v : v[i][2] = 0

\* C12 as stated: for target_y <= target_x march_ray calls f limit_x + 1
\* times, with x = 0, 1, ..., limit_x in order and starting at (0, 0); y never
\* decreases, grows by at most 1 per step and never exceeds x; in the general
\* branch the error term r stays in [0, target_x); target_y = 0 gives y = 0
\* and target_y = target_x gives y = x throughout.
C12_Original ==
    (pc = "march" /\ march.target_y <= march.target_x) =>
       /\ MarchPathShape
       /\ march.target_y = march.target_x =>
             \A i \in DOMAIN march.visited :
                march.visited[i][2] = march.visited[i][1]

\* C12 as amended: the same, with y = x throughout only for
\* target_y = target_x > 0; the target (0, 0) takes the horizontal branch.
C12_MarchPath ==
    (pc = "march" /\ march.target_y <= march.target_x) =>
       /\ MarchPathShape
       /\ (march.target_y = march.target_x /\ march.target_x > 0) =>
             \A i \in DOMAIN march.visited :
                march.visited[i][2] = march.visited[i][1]

C12_Witness ==
    /\ pc = "march"
    /\ march.pc = "done"
    /\ march.limit_x = 4
    /\ march.target_x = 5 /\ march.target_y = 3
    /\ march.visited =
          << <<0, 0>>, <<1, 1>>, <<2, 1>>, <<3, 2>>, <<4, 2>> >>
    /\ march.r = 4

====
